---------------------------- MODULE Spec2Model ----------------------------
(***************************************************************************)
(* The NYC congestion-pricing pipeline of src/pipeline.py and the          *)
(* dashboard of src/DashBoard/app.py as a state machine.                   *)
(*                                                                         *)
(* State: the files of DATA_FOLDER, the parquet files the stages write to  *)
(* the working directory, the tables of the DuckDB connection of the stage *)
(* that ran last, and the position of run_ingestion.  One action per       *)
(* pipeline function.  SQL is modelled with its three-valued logic: a      *)
(* nullable value is <<>> (NULL) or <<v>>, a condition is "true", "false"  *)
(* or "null", and WHERE keeps the rows whose condition is "true".          *)
(* File names and zone names are sequences of characters, so that Python's *)
(* `in` and SQL's LIKE '%..%' are substring tests.                         *)
(* Money is in whole dollars, distance in whole miles; quotients (speeds,  *)
(* averages, ratios) are exact fractions <<numerator, denominator>>.       *)
(***************************************************************************)
EXTENDS Integers, Sequences, FiniteSets, TLC

VARIABLES
    web,       \* the remote sources: url file name -> rows served
    data,      \* DATA_FOLDER: file name -> [valid, rows]
    out,       \* working directory: parquet file name -> rows
    live,      \* TRUE when the stages' COPY statements are separate steps
    pending,   \* the COPY statements the current stage has still to run
    partial,   \* working-directory files whose write has begun and not ended
    con,       \* tables of the DuckDB connection of the last stage (or of each worker)
    links,     \* run_ingestion's local variable links
    pc,        \* the function run_ingestion calls next, "done" or "failed"
    run,       \* number of the current invocation of run_ingestion
    started,   \* stages that began executing in the current run
    written,   \* working-directory files written in the current run
    raised,    \* the stage whose exception left run_ingestion, or ""
    snapshot,  \* the working directory at the end of the last completed run
    dash       \* the dashboard script: position and the tables it loaded

vars == <<web, data, out, live, pending, partial, con, links, pc, run,
          started, written, raised, snapshot, dash>>

----------------------------------------------------------------------------
(* Strings as sequences of characters.                                     *)

\* Python `sub in s`, SQL `s LIKE '%sub%'`
Contains(s, sub) ==
    \E i \in 0..(Len(s) - Len(sub)) :
        \A j \in 1..Len(sub) : s[i + j] = sub[j]

StartsWith(s, pre) ==
    /\ Len(pre) <= Len(s)
    /\ \A j \in 1..Len(pre) : s[j] = pre[j]

EndsWith(s, suf) ==
    /\ Len(suf) <= Len(s)
    /\ \A j \in 1..Len(suf) : s[Len(s) - Len(suf) + j] = suf[j]

S_yellow  == <<"y","e","l","l","o","w">>
S_green   == <<"g","r","e","e","n">>
S_fhv     == <<"f","h","v">>
S_parquet == <<"p","a","r","q","u","e","t">>
S_tripdata == <<"_","t","r","i","p","d","a","t","a","_">>
S_dotparquet == <<".">> \o S_parquet
S_2023 == <<"2","0","2","3">>
S_2024 == <<"2","0","2","4">>
S_2025 == <<"2","0","2","5">>
S_01 == <<"0","1">>
S_12 == <<"1","2">>
S_2025_12 == S_2025 \o <<"-">> \o S_12

\* f"{fleet}_tripdata_{year}-{month}.parquet"
TripFile(fleet, year, month) ==
    fleet \o S_tripdata \o year \o <<"-">> \o month \o S_dotparquet

LOOKUP_FILE == <<"t","a","x","i","_","z","o","n","e","_","l","o","o","k","u","p",".","c","s","v">>
WEATHER_FILE == <<"n","y","_","w","e","a","t","h","e","r">> \o S_dotparquet

S_Manhattan == <<"M","a","n","h","a","t","t","a","n">>
S_Queens == <<"Q","u","e","e","n","s">>
S_Harlem == <<"H","a","r","l","e","m">>
S_Inwood == <<"I","n","w","o","o","d">>
S_Washington_Heights ==
    <<"W","a","s","h","i","n","g","t","o","n"," ","H","e","i","g","h","t","s">>

----------------------------------------------------------------------------
(* SQL values and three-valued logic.                                      *)

NULL == <<>>
V(x) == <<x>>
IsNull(x) == x = NULL

Not3(a) == CASE a = "true" -> "false" [] a = "false" -> "true" [] OTHER -> "null"
And3(a, b) ==
    IF a = "false" \/ b = "false" THEN "false"
    ELSE IF a = "true" /\ b = "true" THEN "true" ELSE "null"
Or3(a, b) ==
    IF a = "true" \/ b = "true" THEN "true"
    ELSE IF a = "false" /\ b = "false" THEN "false" ELSE "null"
Bool3(b) == IF b THEN "true" ELSE "false"

\* comparisons of nullable integers
Gt(x, y) == IF IsNull(x) \/ IsNull(y) THEN "null" ELSE Bool3(x[1] > y[1])
Ge(x, y) == IF IsNull(x) \/ IsNull(y) THEN "null" ELSE Bool3(x[1] >= y[1])
Le(x, y) == IF IsNull(x) \/ IsNull(y) THEN "null" ELSE Bool3(x[1] <= y[1])
Lt(x, y) == IF IsNull(x) \/ IsNull(y) THEN "null" ELSE Bool3(x[1] < y[1])
Eq(x, y) == IF IsNull(x) \/ IsNull(y) THEN "null" ELSE Bool3(x[1] = y[1])
InList(x, S) == IF IsNull(x) THEN "null" ELSE Bool3(x[1] \in S)

\* exact fractions n / d, d > 0, in lowest terms
RECURSIVE GCD(_, _)
GCD(a, b) == IF b = 0 THEN a ELSE GCD(b, a % b)
Abs(a) == IF a < 0 THEN -a ELSE a
Frac(n, d) ==
    LET g == GCD(Abs(n), d) IN IF g = 0 THEN <<0, 1>> ELSE <<n \div g, d \div g>>
FracAdd(a, b) == Frac(a[1] * b[2] + b[1] * a[2], a[2] * b[2])
RECURSIVE FracSum(_)
FracSum(s) == IF s = <<>> THEN <<0, 1>> ELSE FracAdd(s[1], FracSum(Tail(s)))

\* comparisons of a nullable fraction <<n, d>>, d > 0, with an integer
FracGt(x, k) == IF IsNull(x) THEN "null" ELSE Bool3(x[1][1] > k * x[1][2])
FracLt(x, k) == IF IsNull(x) THEN "null" ELSE Bool3(x[1][1] < k * x[1][2])

COALESCE(x, y) == IF IsNull(x) THEN y ELSE x

\* WHERE: the rows of a table (a sequence) whose condition is "true"
Where(rows, Cond(_)) == SelectSeq(rows, LAMBDA r : Cond(r) = "true")

RECURSIVE SumSeq(_)
SumSeq(s) == IF s = <<>> THEN 0 ELSE s[1] + SumSeq(Tail(s))

\* the non-NULL values of a column, unwrapped
NonNull(rows, Col(_)) ==
    LET keep == SelectSeq(rows, LAMBDA r : ~IsNull(Col(r)))
    IN  [i \in 1..Len(keep) |-> Col(keep[i])[1]]

\* SUM(col): NULL over no non-NULL value
SUM(rows, Col(_)) ==
    LET vs == NonNull(rows, Col) IN IF vs = <<>> THEN NULL ELSE V(SumSeq(vs))

\* AVG(col) of an integer column, as the fraction sum / count
AVG(rows, Col(_)) ==
    LET vs == NonNull(rows, Col)
    IN  IF vs = <<>> THEN NULL ELSE V(Frac(SumSeq(vs), Len(vs)))

\* AVG(col) of a column of fractions
AVGF(rows, Col(_)) ==
    LET vs == NonNull(rows, Col)
        t  == FracSum(vs)
    IN  IF vs = <<>> THEN NULL ELSE V(Frac(t[1], t[2] * Len(vs)))

\* GROUP BY: the keys, and the rows of one key (NULL is a key like another)
GroupKeys(rows, Key(_)) == {Key(rows[i]) : i \in 1..Len(rows)}
Group(rows, Key(_), k) == SelectSeq(rows, LAMBDA r : Key(r) = k)

\* the rows of an unordered table, in some order
RECURSIVE SeqOf(_)
SeqOf(S) == IF S = {} THEN <<>> ELSE LET x == CHOOSE x \in S : TRUE
                                     IN  <<x>> \o SeqOf(S \ {x})

Repeat(r, n) == [i \in 1..n |-> r]

Range(s) == {s[i] : i \in 1..Len(s)}

RECURSIVE Flatten(_)
Flatten(ss) == IF ss = <<>> THEN <<>> ELSE ss[1] \o Flatten(Tail(ss))

----------------------------------------------------------------------------
(* Timestamps <<year, month, day, second of day>>.                         *)

\* days since 1970-01-01 of a civil date (proleptic Gregorian)
DaysFromCivil(y, m, d) ==
    LET yy  == IF m <= 2 THEN y - 1 ELSE y
        era == yy \div 400
        yoe == yy - era * 400
        mp  == (m + 9) % 12
        doy == (153 * mp + 2) \div 5 + d - 1
        doe == yoe * 365 + yoe \div 4 - yoe \div 100 + doy
    IN  era * 146097 + doe - 719468

Epoch(t) == DaysFromCivil(t[1], t[2], t[3]) * 86400 + t[4]

\* EXTRACT(EPOCH FROM (b - a)), nullable
EpochDiff(b, a) ==
    IF IsNull(a) \/ IsNull(b) THEN NULL ELSE V(Epoch(b[1]) - Epoch(a[1]))

ExtractYear(t)  == IF IsNull(t) THEN NULL ELSE V(t[1][1])
ExtractMonth(t) == IF IsNull(t) THEN NULL ELSE V(t[1][2])
ExtractHour(t)  == IF IsNull(t) THEN NULL ELSE V(t[1][4] \div 3600)
\* EXTRACT(DOW ...): 0 = Sunday; 1970-01-01 was a Thursday
ExtractDow(t) ==
    IF IsNull(t) THEN NULL
    ELSE V((DaysFromCivil(t[1][1], t[1][2], t[1][3]) + 4) % 7)
\* DATE_TRUNC('month', t)
TruncMonth(t) == IF IsNull(t) THEN NULL ELSE V(<<t[1][1], t[1][2]>>)
\* DATE(t)
DateOf(t) == IF IsNull(t) THEN NULL ELSE V(<<t[1][1], t[1][2], t[1][3]>>)

----------------------------------------------------------------------------
(* run_ingestion: the order of the stages.                                 *)

Stages ==
    << "scrape_parquet_links", "download_files", "impute_december_if_missing",
       "create_unified_schema", "ghost_trip_filter",
       "build_congestion_zone_reference", "congestion_leakage_audit",
       "yellow_green_decline", "compute_kpis", "border_effect_analysis",
       "congestion_velocity_heatmap", "crowding_out_analysis",
       "rain_tax_analysis", "prepare_dashboard_datasets" >>

StageIndex(s) == CHOOSE i \in 1..Len(Stages) : Stages[i] = s

\* the statement after the call of stage s returns
NextStage(s) ==
    IF StageIndex(s) = Len(Stages) THEN "done" ELSE Stages[StageIndex(s) + 1]

\* the exception is caught and the runner goes on
RaiseSwallowed(s) == NextStage(s)

\* an exception leaves run_ingestion: nothing catches it
Raise(s) == "failed"

\* the working directory after the COPY statements of `copies`, each a pair
\* <<file name, rows>>, ran in order
RECURSIVE Copied(_, _)
Copied(files, copies) ==
    IF copies = <<>> THEN files
    ELSE Copied([n \in DOMAIN files \cup {copies[1][1]} |->
                    IF n = copies[1][1] THEN copies[1][2] ELSE files[n]],
                Tail(copies))

\* stage s is the function run_ingestion calls next
At(s) == pc = s /\ pending = <<>> /\ partial = {}

\* stage s ran its queries and runs the COPY statements of `copies`: in one
\* step with the rest of the stage, or (live) one file at a time
Return(s, copies, tables) ==
    /\ pc' = NextStage(s)
    /\ con' = tables
    /\ started' = started \cup {s}
    /\ IF live
       THEN /\ pending' = copies
            /\ UNCHANGED <<out, written>>
       ELSE /\ out' = Copied(out, copies)
            /\ written' = written \cup {copies[i][1] : i \in 1..Len(copies)}
            /\ UNCHANGED pending
    /\ UNCHANGED <<partial, raised>>

\* stage s raised before it wrote a file
Abort(s) ==
    /\ pc' = Raise(s)
    /\ raised' = s
    /\ started' = started \cup {s}
    /\ UNCHANGED <<out, written, con, pending, partial>>

NoFiles == <<>>

Exists(name) == name \in DOMAIN data

\* the body of a url: the file, or the server's error page
Body(name) ==
    IF name \in DOMAIN web THEN [valid |-> TRUE, rows |-> web[name]]
    ELSE [valid |-> FALSE, rows |-> <<>>]

\* the files of `names` that are absent, in order
Missing(names) == SelectSeq(names, LAMBDA n : ~Exists(n))

\* DATA_FOLDER after the first k files of `names` were downloaded
Downloaded(names, k) ==
    [n \in DOMAIN data \cup {names[i] : i \in 1..k} |->
        IF n \in DOMAIN data THEN data[n] ELSE Body(n)]

\* read_parquet / read_csv_auto of a list of DATA_FOLDER files succeeds
Readable(folder, names) ==
    \A i \in 1..Len(names) : names[i] \in DOMAIN folder /\ folder[names[i]].valid

ReadAll(folder, names) == Flatten([i \in 1..Len(names) |-> folder[names[i]].rows])

----------------------------------------------------------------------------
(* Source Fetcher.                                                         *)

\* every file name the model knows, in lexicographic order
AllNames ==
    << TripFile(S_fhv, S_2025, S_01),
       TripFile(S_green, S_2023, S_12), TripFile(S_green, S_2024, S_12),
       TripFile(S_green, S_2025, S_01), TripFile(S_green, S_2025, S_12),
       LOOKUP_FILE, WEATHER_FILE,
       TripFile(S_yellow, S_2023, S_12), TripFile(S_yellow, S_2024, S_12),
       TripFile(S_yellow, S_2025, S_01), TripFile(S_yellow, S_2025, S_12) >>

\* the hrefs of the TLC page
PageHrefs == SelectSeq(AllNames, LAMBDA n : n \in DOMAIN web /\ EndsWith(n, S_dotparquet)
                                            /\ n # WEATHER_FILE)

ScrapedLinks ==
    SelectSeq(PageHrefs, LAMBDA h :
        /\ Contains(h, S_2025) /\ Contains(h, S_parquet)
        /\ (Contains(h, S_yellow) \/ Contains(h, S_green)))

scrape_parquet_links ==
    /\ At("scrape_parquet_links")
    /\ \E reachable \in BOOLEAN :
        IF reachable
        THEN /\ links' = ScrapedLinks
             /\ Return("scrape_parquet_links", NoFiles, con)
        ELSE /\ Abort("scrape_parquet_links")
             /\ UNCHANGED links
    /\ UNCHANGED <<web, data, live, run, snapshot, dash>>

download_files ==
    /\ At("download_files")
    /\ LET need == Missing(links) IN
       \E k \in 0..Len(need) :
          /\ data' = Downloaded(need, k)
          /\ IF k = Len(need)
             THEN Return("download_files", NoFiles, con)
             ELSE Abort("download_files")
    /\ UNCHANGED <<web, live, links, run, snapshot, dash>>

----------------------------------------------------------------------------
(* December Imputer.                                                       *)

december_missing == \A file \in DOMAIN data : ~Contains(file, S_2025_12)

files_2023 == << TripFile(S_yellow, S_2023, S_12), TripFile(S_green, S_2023, S_12) >>
files_2024 == << TripFile(S_yellow, S_2024, S_12), TripFile(S_green, S_2024, S_12) >>

\* the one-row result of the statistics query over a list of raw files
DecemberStats(rows) ==
    [ trips         |-> V(Len(rows)),
      avg_distance  |-> AVG(rows, LAMBDA r : r.trip_distance),
      avg_fare      |-> AVG(rows, LAMBDA r : r.fare_amount),
      avg_total     |-> AVG(rows, LAMBDA r : r.total_amount),
      avg_surcharge |-> AVG(rows, LAMBDA r : r.congestion_surcharge) ]

AsFrac(x) == IF IsNull(x) THEN NULL ELSE V(<<x[1], 1>>)

\* the blend with its weights exchanged
WeightedSwapped(a, b) ==
    IF IsNull(a) \/ IsNull(b) THEN NULL
    ELSE V(Frac(7 * a[1][1] * b[1][2] + 3 * b[1][1] * a[1][2],
                10 * a[1][2] * b[1][2]))

\* 0.3 * a + 0.7 * b of two nullable fractions (NaN when either is)
Weighted(a, b) ==
    IF IsNull(a) \/ IsNull(b) THEN NULL
    ELSE V(Frac(3 * a[1][1] * b[1][2] + 7 * b[1][1] * a[1][2],
                10 * a[1][2] * b[1][2]))

WeightedStats(s23, s24) ==
    [ trips         |-> Weighted(AsFrac(s23.trips), AsFrac(s24.trips)),
      avg_distance  |-> Weighted(s23.avg_distance, s24.avg_distance),
      avg_fare      |-> Weighted(s23.avg_fare, s24.avg_fare),
      avg_total     |-> Weighted(s23.avg_total, s24.avg_total),
      avg_surcharge |-> Weighted(s23.avg_surcharge, s24.avg_surcharge) ]

impute_december_if_missing ==
    /\ At("impute_december_if_missing")
    /\ IF ~december_missing
       THEN /\ Return("impute_december_if_missing", NoFiles, con)
            /\ UNCHANGED data
       ELSE LET need == Missing(files_2023 \o files_2024) IN
            \E k \in 0..Len(need) :
               /\ data' = Downloaded(need, k)
               /\ IF k = Len(need) /\ Readable(data', files_2023 \o files_2024)
                  THEN LET stats23 == DecemberStats(ReadAll(data', files_2023))
                           stats24 == DecemberStats(ReadAll(data', files_2024))
                           weighted == WeightedStats(stats23, stats24)
                       IN  Return("impute_december_if_missing",
                                  << <<"imputed_december_2025.parquet", <<weighted>>>> >>,
                                  [stats23 |-> <<stats23>>, stats24 |-> <<stats24>>])
                  ELSE Abort("impute_december_if_missing")
    /\ UNCHANGED <<web, live, links, run, snapshot, dash>>

----------------------------------------------------------------------------
(* Schema Unifier.                                                         *)

\* the files of DATA_FOLDER that match {fleet}_*.parquet, in glob order
Glob(fleet) ==
    SelectSeq(AllNames, LAMBDA n :
        /\ Exists(n) /\ StartsWith(n, fleet \o <<"_">>) /\ EndsWith(n, S_dotparquet))

UnifiedRow(taxi, r) ==
    [ taxi_type            |-> taxi,
      pickup_time          |-> r.pickup_datetime,
      dropoff_time         |-> r.dropoff_datetime,
      pickup_loc           |-> r.PULocationID,
      dropoff_loc          |-> r.DOLocationID,
      trip_distance        |-> r.trip_distance,
      fare                 |-> r.fare_amount,
      tip_amount           |-> r.tip_amount,
      total_amount         |-> r.total_amount,
      congestion_surcharge |-> r.congestion_surcharge ]

UnifiedTrips ==
    LET yellow == ReadAll(data, Glob(S_yellow))
        green  == ReadAll(data, Glob(S_green))
    IN  [i \in 1..Len(yellow) |-> UnifiedRow("Yellow", yellow[i])]
        \o [i \in 1..Len(green) |-> UnifiedRow("Green", green[i])]

create_unified_schema ==
    /\ At("create_unified_schema")
    /\ IF /\ Glob(S_yellow) # <<>> /\ Glob(S_green) # <<>>
          /\ Readable(data, Glob(S_yellow) \o Glob(S_green))
       THEN Return("create_unified_schema",
                   << <<"unified_trips.parquet", UnifiedTrips>> >>,
                   [unified_trips |-> UnifiedTrips])
       ELSE Abort("create_unified_schema")
    /\ UNCHANGED <<web, data, live, links, run, snapshot, dash>>

----------------------------------------------------------------------------
(* Ghost Trip Filter.                                                      *)

WithMetrics(r) ==
    LET secs == EpochDiff(r.dropoff_time, r.pickup_time) IN
    [ taxi_type            |-> r.taxi_type,
      pickup_time          |-> r.pickup_time,
      dropoff_time         |-> r.dropoff_time,
      pickup_loc           |-> r.pickup_loc,
      dropoff_loc          |-> r.dropoff_loc,
      trip_distance        |-> r.trip_distance,
      fare                 |-> r.fare,
      tip_amount           |-> r.tip_amount,
      total_amount         |-> r.total_amount,
      congestion_surcharge |-> r.congestion_surcharge,
      duration_minutes     |-> IF IsNull(secs) THEN NULL ELSE V(Frac(secs[1], 60)),
      avg_speed_mph        |->
          IF Gt(secs, V(0)) = "true"
          THEN IF IsNull(r.trip_distance) THEN NULL
               ELSE V(Frac(r.trip_distance[1] * 3600, secs[1]))
          ELSE V(<<0, 1>>) ]

TripsWithMetrics(unified) ==
    LET kept == Where(unified, LAMBDA r : Ge(ExtractYear(r.pickup_time), V(2023)))
    IN  [i \in 1..Len(kept) |-> WithMetrics(kept[i])]

\* the condition of the ghost_trips query
GhostCondition(r) ==
    Or3(Or3(FracGt(r.avg_speed_mph, 65),
            And3(FracLt(r.duration_minutes, 1), Gt(r.fare, V(20)))),
        And3(Eq(r.trip_distance, V(0)), Gt(r.fare, V(0))))

GhostTrips(metrics) == Where(metrics, GhostCondition)

\* the clean query without its third predicate
CleanTripsForgetful(metrics) ==
    Where(metrics, LAMBDA r :
        Not3(Or3(FracGt(r.avg_speed_mph, 65),
                 And3(FracLt(r.duration_minutes, 1), Gt(r.fare, V(20))))))

CleanTrips(metrics) == Where(metrics, LAMBDA r : Not3(GhostCondition(r)))

ghost_trip_filter ==
    /\ At("ghost_trip_filter")
    /\ IF "unified_trips.parquet" \in DOMAIN out
       THEN LET trips_with_metrics == TripsWithMetrics(out["unified_trips.parquet"])
                ghost_trips == GhostTrips(trips_with_metrics)
                clean_trips == CleanTrips(trips_with_metrics)
            IN  Return("ghost_trip_filter",
                       << <<"audit_log.parquet", ghost_trips>>,
                          <<"clean_trips.parquet", clean_trips>> >>,
                       [trips_with_metrics |-> trips_with_metrics,
                        ghost_trips |-> ghost_trips, clean_trips |-> clean_trips])
       ELSE Abort("ghost_trip_filter")
    /\ UNCHANGED <<web, data, live, links, run, snapshot, dash>>

----------------------------------------------------------------------------
(* Congestion Zone Builder.                                                *)

NotLike(x, pat) == IF IsNull(x) THEN "null" ELSE Bool3(~Contains(x[1], pat))

CongestionCondition(l) ==
    And3(And3(And3(Eq(l.Borough, V(S_Manhattan)),
                   NotLike(l.Zone, S_Harlem)),
              NotLike(l.Zone, S_Inwood)),
         NotLike(l.Zone, S_Washington_Heights))

CongestionZone(taxi_zones) ==
    LET kept == Where(taxi_zones, CongestionCondition)
    IN  [i \in 1..Len(kept) |-> [LocationID |-> kept[i].LocationID]]

build_congestion_zone_reference ==
    /\ At("build_congestion_zone_reference")
    /\ LET need == Missing(<<LOOKUP_FILE>>) IN
       \E k \in 0..Len(need) :
          /\ data' = Downloaded(need, k)
          /\ IF k = Len(need) /\ Readable(data', <<LOOKUP_FILE>>)
             THEN LET taxi_zones == data'[LOOKUP_FILE].rows
                      congestion_zone == CongestionZone(taxi_zones)
                  IN  Return("build_congestion_zone_reference",
                             << <<"congestion_zone.parquet", congestion_zone>> >>,
                             [taxi_zones |-> taxi_zones,
                              congestion_zone |-> congestion_zone])
             ELSE Abort("build_congestion_zone_reference")
    /\ UNCHANGED <<web, live, links, run, snapshot, dash>>

----------------------------------------------------------------------------
(* Leakage Auditor.                                                        *)

\* the number of rows of zones that the join condition loc = LocationID matches
Matches(zones, loc) ==
    Len(SelectSeq(zones, LAMBDA z : Eq(loc, z.LocationID) = "true"))

\* trips LEFT JOIN zones p LEFT JOIN zones d
\* WHERE p.LocationID IS NULL AND d.LocationID IS NOT NULL [AND year >= floor]
\* (floor: the least pickup year, or NULL where the query has no such term)
EnteringZone(trips, zones, floor) ==
    Flatten([i \in 1..Len(trips) |->
        IF /\ Matches(zones, trips[i].pickup_loc) = 0
           /\ \/ IsNull(floor)
              \/ Ge(ExtractYear(trips[i].pickup_time), floor) = "true"
        THEN Repeat(trips[i], Matches(zones, trips[i].dropoff_loc))
        ELSE <<>>])

PolicyYear == V(2024)

ComplianceStats(entering_zone) ==
    [ total_entering  |-> V(Len(entering_zone)),
      compliant_trips |->
          IF entering_zone = <<>> THEN NULL
          ELSE V(Len(SelectSeq(entering_zone,
                     LAMBDA t : Gt(t.congestion_surcharge, V(0)) = "true"))) ]

\* the leakage query with its comparison turned around
LeakageConditionAnyCharge(t) ==
    Or3(Bool3(IsNull(t.congestion_surcharge)), Ge(t.congestion_surcharge, V(0)))

LeakageCondition(t) ==
    Or3(Bool3(IsNull(t.congestion_surcharge)), Le(t.congestion_surcharge, V(0)))

LeakageTrips(entering_zone) == Where(entering_zone, LeakageCondition)

\* GROUP BY pickup_loc
LeakageCounts(leakage_trips) ==
    { [ pickup_loc    |-> k,
        leakage_count |-> Len(Group(leakage_trips, LAMBDA t : t.pickup_loc, k)) ] :
      k \in GroupKeys(leakage_trips, LAMBDA t : t.pickup_loc) }

Min(a, b) == IF a < b THEN a ELSE b

\* ORDER BY leakage_count DESC LIMIT 3: the order of rows with equal counts
\* is not determined by the query, so every choice of the tied rows at the
\* limit is a possible result
TopLeakageChoices(counts) ==
    { S \in SUBSET counts :
        /\ Cardinality(S) = Min(3, Cardinality(counts))
        /\ \A g \in S : \A h \in counts \ S : g.leakage_count >= h.leakage_count }

congestion_leakage_audit ==
    /\ At("congestion_leakage_audit")
    /\ IF {"clean_trips.parquet", "congestion_zone.parquet"} \subseteq DOMAIN out
       THEN LET trips == out["clean_trips.parquet"]
                zones == out["congestion_zone.parquet"]
                entering_zone == EnteringZone(trips, zones, PolicyYear)
                compliance_stats == <<ComplianceStats(entering_zone)>>
                leakage_trips == LeakageTrips(entering_zone)
            IN  \E top_leakage_pickups \in TopLeakageChoices(LeakageCounts(leakage_trips)) :
                  Return("congestion_leakage_audit",
                      << <<"leakage_trips.parquet", leakage_trips>>,
                         <<"top_leakage_pickups.parquet", top_leakage_pickups>>,
                         <<"compliance_stats.parquet", compliance_stats>> >>,
                      [trips |-> trips, zones |-> zones,
                       entering_zone |-> entering_zone,
                       leakage_trips |-> leakage_trips])
       ELSE Abort("congestion_leakage_audit")
    /\ UNCHANGED <<web, data, live, links, run, snapshot, dash>>

----------------------------------------------------------------------------
(* Aggregation Engine.                                                     *)

NoYearFloor == NULL

Q1Condition(t) ==
    And3(InList(ExtractMonth(t.pickup_time), {1, 2, 3}),
         InList(ExtractYear(t.pickup_time), {2024, 2025}))

\* q1_comparison of a trip table and the congestion zone
Q1Comparison(trips, zones) ==
    LET entering_zone == EnteringZone(trips, zones, NoYearFloor)
        q1_data == Where(entering_zone, Q1Condition)
        Key(t) == <<t.taxi_type, ExtractYear(t.pickup_time)>>
    IN  { [ taxi_type |-> k[1], year |-> k[2],
            trips |-> Len(Group(q1_data, Key, k)) ] : k \in GroupKeys(q1_data, Key) }

\* the trip table yellow_green_decline loads
DeclineTripFile == "unified_trips.parquet"

yellow_green_decline ==
    /\ At("yellow_green_decline")
    /\ IF {DeclineTripFile, "congestion_zone.parquet"} \subseteq DOMAIN out
       THEN LET trips == out[DeclineTripFile]
                zones == out["congestion_zone.parquet"]
            IN  Return("yellow_green_decline",
                       << <<"q1_yellow_green.parquet", Q1Comparison(trips, zones)>> >>,
                       [trips |-> trips, zones |-> zones])
       ELSE Abort("yellow_green_decline")
    /\ UNCHANGED <<web, data, live, links, run, snapshot, dash>>

MonthOf(t) == TruncMonth(t.pickup_time)

\* the KPI query with COUNT(total_amount) for COUNT(*)
MonthlyKpisCountTotals(trips) ==
    { LET g == Group(trips, MonthOf, m) IN
      [ month                |-> m,
        total_trips          |-> Len(NonNull(g, LAMBDA t : t.total_amount)),
        total_revenue        |-> SUM(g, LAMBDA t : t.total_amount),
        congestion_revenue   |-> SUM(g, LAMBDA t : t.congestion_surcharge),
        avg_distance         |-> AVG(g, LAMBDA t : t.trip_distance),
        avg_duration_minutes |->
            AVGF(g, LAMBDA t :
                LET secs == EpochDiff(t.dropoff_time, t.pickup_time)
                IN  IF IsNull(secs) THEN NULL ELSE V(Frac(secs[1], 60))) ] :
      m \in GroupKeys(trips, MonthOf) }

MonthlyKpis(trips) ==
    { LET g == Group(trips, MonthOf, m) IN
      [ month                |-> m,
        total_trips          |-> Len(g),
        total_revenue        |-> SUM(g, LAMBDA t : t.total_amount),
        congestion_revenue   |-> SUM(g, LAMBDA t : t.congestion_surcharge),
        avg_distance         |-> AVG(g, LAMBDA t : t.trip_distance),
        avg_duration_minutes |->
            AVGF(g, LAMBDA t :
                LET secs == EpochDiff(t.dropoff_time, t.pickup_time)
                IN  IF IsNull(secs) THEN NULL ELSE V(Frac(secs[1], 60))) ] :
      m \in GroupKeys(trips, MonthOf) }

compute_kpis ==
    /\ At("compute_kpis")
    /\ IF "clean_trips.parquet" \in DOMAIN out
       THEN LET trips == out["clean_trips.parquet"]
            IN  Return("compute_kpis",
                       << <<"monthly_kpis.parquet", MonthlyKpis(trips)>> >>,
                       [trips |-> trips])
       ELSE Abort("compute_kpis")
    /\ UNCHANGED <<web, data, live, links, run, snapshot, dash>>

\* the border query without its anti-join
BorderZonesAllManhattan(lookup, zones) ==
    LET kept == SelectSeq(lookup, LAMBDA l : Eq(l.Borough, V(S_Manhattan)) = "true")
    IN  [i \in 1..Len(kept) |-> [LocationID |-> kept[i].LocationID]]

\* lookup LEFT JOIN zones WHERE Borough = 'Manhattan' AND z.LocationID IS NULL
BorderZones(lookup, zones) ==
    LET kept == SelectSeq(lookup, LAMBDA l :
                    /\ Eq(l.Borough, V(S_Manhattan)) = "true"
                    /\ Matches(zones, l.LocationID) = 0)
    IN  [i \in 1..Len(kept) |-> [LocationID |-> kept[i].LocationID]]

BorderDropoffs(trips, border_zones) ==
    Flatten([i \in 1..Len(trips) |->
        IF InList(ExtractYear(trips[i].pickup_time), {2024, 2025}) = "true"
        THEN Repeat([dropoff_loc |-> trips[i].dropoff_loc,
                     year |-> ExtractYear(trips[i].pickup_time)],
                    Matches(border_zones, trips[i].dropoff_loc))
        ELSE <<>>])

BorderCounts(border_dropoffs) ==
    LET Key(r) == <<r.dropoff_loc, r.year>>
    IN  { [ dropoff_loc |-> k[1], year |-> k[2],
            trips |-> Len(Group(border_dropoffs, Key, k)) ] :
          k \in GroupKeys(border_dropoffs, Key) }

\* the change with a zero baseline reported as no change
BorderChangeZeroBaseline(border_counts) ==
    LET a == {c \in border_counts : c.year = V(2024)}
        b == {c \in border_counts : c.year = V(2025)}
        Trips(S, z) == IF \E c \in S : c.dropoff_loc = z
                       THEN V((CHOOSE c \in S : c.dropoff_loc = z).trips)
                       ELSE NULL
    IN  { LET ta == Trips(a, z)
              tb == Trips(b, z)
          IN  [ dropoff_loc    |-> z,
                trips_2024     |-> COALESCE(ta, V(0)),
                trips_2025     |-> COALESCE(tb, V(0)),
                percent_change |->
                    IF Gt(COALESCE(ta, V(0)), V(0)) = "true"
                    THEN V(Frac(100 * (COALESCE(tb, V(0))[1] - ta[1]), ta[1]))
                    ELSE V(<<0, 1>>) ] :
          z \in {c.dropoff_loc : c \in border_counts} }

\* the counts of one year FULL OUTER JOIN the counts of the other
BorderChange(border_counts) ==
    LET a == {c \in border_counts : c.year = V(2024)}
        b == {c \in border_counts : c.year = V(2025)}
        Trips(S, z) == IF \E c \in S : c.dropoff_loc = z
                       THEN V((CHOOSE c \in S : c.dropoff_loc = z).trips)
                       ELSE NULL
    IN  { LET ta == Trips(a, z)
              tb == Trips(b, z)
          IN  [ dropoff_loc    |-> z,
                trips_2024     |-> COALESCE(ta, V(0)),
                trips_2025     |-> COALESCE(tb, V(0)),
                percent_change |->
                    IF Gt(COALESCE(ta, V(0)), V(0)) = "true"
                    THEN V(Frac(100 * (COALESCE(tb, V(0))[1] - ta[1]), ta[1]))
                    ELSE NULL ] :
          z \in {c.dropoff_loc : c \in border_counts} }

border_effect_analysis ==
    /\ At("border_effect_analysis")
    /\ IF /\ {"clean_trips.parquet", "congestion_zone.parquet"} \subseteq DOMAIN out
          /\ Readable(data, <<LOOKUP_FILE>>)
       THEN LET trips == out["clean_trips.parquet"]
                zones == out["congestion_zone.parquet"]
                lookup == data[LOOKUP_FILE].rows
                border_zones == BorderZones(lookup, zones)
                border_dropoffs == BorderDropoffs(trips, border_zones)
                border_counts == BorderCounts(border_dropoffs)
            IN  Return("border_effect_analysis",
                       << <<"border_effect.parquet", BorderChange(border_counts)>> >>,
                       [trips |-> trips, zones |-> zones, lookup |-> lookup,
                        border_zones |-> border_zones,
                        border_counts |-> border_counts])
       ELSE Abort("border_effect_analysis")
    /\ UNCHANGED <<web, data, live, links, run, snapshot, dash>>

\* trips JOIN zones ON pickup_loc = LocationID
ZoneTrips(trips, zones) ==
    Flatten([i \in 1..Len(trips) |->
        Repeat(trips[i], Matches(zones, trips[i].pickup_loc))])

SpeedMetrics(zone_trips) ==
    [i \in 1..Len(zone_trips) |->
        LET t == zone_trips[i]
            secs == EpochDiff(t.dropoff_time, t.pickup_time)
        IN  [ hour      |-> ExtractHour(t.pickup_time),
              weekday   |-> ExtractDow(t.pickup_time),
              speed_mph |->
                  IF Gt(secs, V(0)) = "true"
                  THEN IF IsNull(t.trip_distance) THEN NULL
                       ELSE V(Frac(t.trip_distance[1] * 3600, secs[1]))
                  ELSE NULL ]]

HeatmapData(speed_metrics) ==
    LET kept == SelectSeq(speed_metrics, LAMBDA r : ~IsNull(r.speed_mph))
        Key(r) == <<r.weekday, r.hour>>
    IN  { [ weekday |-> k[1], hour |-> k[2],
            avg_speed |-> AVGF(Group(kept, Key, k), LAMBDA r : r.speed_mph) ] :
          k \in GroupKeys(kept, Key) }

congestion_velocity_heatmap ==
    /\ At("congestion_velocity_heatmap")
    /\ IF {"clean_trips.parquet", "congestion_zone.parquet"} \subseteq DOMAIN out
       THEN LET trips == out["clean_trips.parquet"]
                zones == out["congestion_zone.parquet"]
                zone_trips == ZoneTrips(trips, zones)
            IN  Return("congestion_velocity_heatmap",
                       << <<"velocity_heatmap.parquet",
                            HeatmapData(SpeedMetrics(zone_trips))>> >>,
                       [trips |-> trips, zones |-> zones, zone_trips |-> zone_trips])
       ELSE Abort("congestion_velocity_heatmap")
    /\ UNCHANGED <<web, data, live, links, run, snapshot, dash>>

TippingData(trips) ==
    [i \in 1..Len(trips) |->
        LET t == trips[i] IN
        [ month |-> TruncMonth(t.pickup_time),
          congestion_surcharge |-> t.congestion_surcharge,
          tip_ratio |->
              IF Gt(t.fare, V(0)) = "true"
              THEN IF IsNull(t.tip_amount) THEN NULL
                   ELSE V(Frac(t.tip_amount[1], t.fare[1]))
              ELSE NULL ]]

TippingSummary(tipping_data) ==
    LET kept == SelectSeq(tipping_data, LAMBDA r : ~IsNull(r.tip_ratio))
    IN  { LET g == Group(kept, LAMBDA r : r.month, m) IN
          [ month         |-> m,
            avg_surcharge |-> AVG(g, LAMBDA r : r.congestion_surcharge),
            avg_tip_ratio |-> AVGF(g, LAMBDA r : r.tip_ratio) ] :
          m \in GroupKeys(kept, LAMBDA r : r.month) }

crowding_out_analysis ==
    /\ At("crowding_out_analysis")
    /\ IF "clean_trips.parquet" \in DOMAIN out
       THEN LET trips == out["clean_trips.parquet"]
            IN  Return("crowding_out_analysis",
                       << <<"crowding_out.parquet",
                            TippingSummary(TippingData(trips))>> >>,
                       [trips |-> trips])
       ELSE Abort("crowding_out_analysis")
    /\ UNCHANGED <<web, data, live, links, run, snapshot, dash>>

\* GROUP BY DATE(pickup_time)
DailyTrips(trips) ==
    LET Key(t) == DateOf(t.pickup_time)
    IN  { [trip_date |-> d, trip_count |-> Len(Group(trips, Key, d))] :
          d \in GroupKeys(trips, Key) }

\* the join with every day that has a weather value counted as rainy
RainAnalysisAnyValue(daily_trips, weather) ==
    LET Hits(d) == {i \in 1..Len(weather) :
                        Eq(d.trip_date, weather[i].trip_date) = "true"}
        Rainy(p) == IF Ge(COALESCE(p, V(0)), V(0)) = "true" THEN 1 ELSE 0
    IN  UNION { IF Hits(d) = {}
                THEN {[trip_date |-> d.trip_date, trip_count |-> d.trip_count,
                       rainy |-> Rainy(NULL), wrow |-> 0]}
                ELSE {[trip_date |-> d.trip_date, trip_count |-> d.trip_count,
                       rainy |-> Rainy(weather[i].precipitation), wrow |-> i] :
                      i \in Hits(d)} :
                d \in daily_trips }

\* daily_trips LEFT JOIN weather ON trip_date: one row per matching weather
\* row (wrow is its number), one row with NULL precipitation when none matches
RainAnalysis(daily_trips, weather) ==
    LET Hits(d) == {i \in 1..Len(weather) :
                        Eq(d.trip_date, weather[i].trip_date) = "true"}
        Rainy(p) == IF Gt(COALESCE(p, V(0)), V(0)) = "true" THEN 1 ELSE 0
    IN  UNION { IF Hits(d) = {}
                THEN {[trip_date |-> d.trip_date, trip_count |-> d.trip_count,
                       rainy |-> Rainy(NULL), wrow |-> 0]}
                ELSE {[trip_date |-> d.trip_date, trip_count |-> d.trip_count,
                       rainy |-> Rainy(weather[i].precipitation), wrow |-> i] :
                      i \in Hits(d)} :
                d \in daily_trips }

RainSummary(rain_analysis) ==
    { [ rainy |-> f,
        avg_trips |-> AVG(SeqOf({r \in rain_analysis : r.rainy = f}),
                          LAMBDA r : V(r.trip_count)) ] :
      f \in {r.rainy : r \in rain_analysis} }

rain_tax_analysis ==
    /\ At("rain_tax_analysis")
    /\ \E reachable \in BOOLEAN :
        \* the weather API is asked only when the cached file is absent; an
        \* answer without the daily series raises before the file is written
        LET fetch == ~Exists(WEATHER_FILE)
            got   == fetch /\ reachable /\ WEATHER_FILE \in DOMAIN web
        IN
        /\ (~fetch => reachable)
        /\ data' = IF got THEN Downloaded(<<WEATHER_FILE>>, 1) ELSE data
        /\ IF /\ (fetch => got)
              /\ "clean_trips.parquet" \in DOMAIN out
              /\ Readable(data', <<WEATHER_FILE>>)
           THEN LET trips == out["clean_trips.parquet"]
                    weather == data'[WEATHER_FILE].rows
                    daily_trips == DailyTrips(trips)
                    rain_analysis == RainAnalysis(daily_trips, weather)
                IN  Return("rain_tax_analysis",
                           << <<"rain_tax.parquet", RainSummary(rain_analysis)>> >>,
                           [trips |-> trips, daily_trips |-> daily_trips,
                            weather |-> weather, rain_analysis |-> rain_analysis])
           ELSE Abort("rain_tax_analysis")
    /\ UNCHANGED <<web, live, links, run, snapshot, dash>>

ZoneTripCounts(trips) ==
    { LET g == Group(trips, LAMBDA t : t.pickup_loc, z) IN
      [ pickup_loc |-> z, trip_count |-> Len(g),
        revenue |-> SUM(g, LAMBDA t : t.total_amount) ] :
      z \in GroupKeys(trips, LAMBDA t : t.pickup_loc) }

MonthlyLeakage(leakage) ==
    { LET g == Group(leakage, MonthOf, m) IN
      [ month |-> m, leakage_trips |-> Len(g),
        leakage_revenue |-> SUM(g, LAMBDA t : t.total_amount) ] :
      m \in GroupKeys(leakage, MonthOf) }

\* the monthly leakage table written over the monthly KPI table
DashboardLeakageFileShared == "monthly_kpis.parquet"

\* COPY monthly_leakage TO ...
DashboardLeakageFile == "dashboard_leakage.parquet"

prepare_dashboard_datasets ==
    /\ At("prepare_dashboard_datasets")
    /\ IF {"clean_trips.parquet", "leakage_trips.parquet"} \subseteq DOMAIN out
       THEN LET trips == out["clean_trips.parquet"]
                leakage == out["leakage_trips.parquet"]
            IN  Return("prepare_dashboard_datasets",
                       << <<"dashboard_zone_counts.parquet", ZoneTripCounts(trips)>>,
                          <<DashboardLeakageFile, MonthlyLeakage(leakage)>> >>,
                       [trips |-> trips, leakage |-> leakage])
       ELSE Abort("prepare_dashboard_datasets")
    /\ UNCHANGED <<web, data, live, links, run, snapshot, dash>>

----------------------------------------------------------------------------
(* COPY ... TO 'file' as steps of its own (live).  DuckDB writes a new     *)
(* file in place; over an existing file it writes in place or to a        *)
(* temporary file that it renames, depending on the build.                 *)

copy_begin ==
    /\ live /\ pending # <<>> /\ partial = {}
    /\ out' = Copied(out, <<pending[1]>>)
    /\ partial' = {pending[1][1]}
    /\ written' = written \cup {pending[1][1]}
    /\ UNCHANGED <<web, data, live, pending, con, links, pc, run, started,
                   raised, snapshot, dash>>

copy_end ==
    /\ live /\ pending # <<>> /\ partial = {pending[1][1]}
    /\ partial' = {}
    /\ pending' = Tail(pending)
    /\ UNCHANGED <<web, data, out, live, con, links, pc, run, started, written,
                   raised, snapshot, dash>>

copy_rename ==
    /\ live /\ pending # <<>> /\ partial = {}
    /\ pending[1][1] \in DOMAIN out
    /\ out' = Copied(out, <<pending[1]>>)
    /\ written' = written \cup {pending[1][1]}
    /\ pending' = Tail(pending)
    /\ UNCHANGED <<web, data, live, partial, con, links, pc, run, started,
                   raised, snapshot, dash>>

----------------------------------------------------------------------------
(* Dashboard: the script of app.py loads the tables in this order.         *)

DashFiles ==
    << "monthly_kpis.parquet", "dashboard_zone_counts.parquet",
       "dashboard_leakage.parquet", "velocity_heatmap.parquet",
       "border_effect.parquet", "crowding_out.parquet", "rain_tax.parquet" >>

DashClosed == [at |-> 0, loaded |-> {}, torn |-> {}]

\* the script starts (a browser session opens or reruns the page)
dash_start ==
    /\ live /\ dash.at \notin 1..Len(DashFiles)
    /\ dash' = [at |-> 1, loaded |-> {}, torn |-> {}]
    /\ UNCHANGED <<web, data, out, live, pending, partial, con, links, pc, run,
                   started, written, raised, snapshot>>

\* pd.read_parquet of the next table: a missing file raises and ends the
\* script; so does a file whose write has not ended, which is met as it is
\* on disk, without the footer that closes a parquet file (torn)
dash_read ==
    /\ live /\ dash.at \in 1..Len(DashFiles)
    /\ LET name == DashFiles[dash.at] IN
       dash' = IF name \notin DOMAIN out
               THEN [dash EXCEPT !.at = 0]
               ELSE IF name \in partial
               THEN [dash EXCEPT !.at = 0, !.torn = dash.torn \cup {name}]
               ELSE [at |-> IF dash.at = Len(DashFiles) THEN 0 ELSE dash.at + 1,
                     loaded |-> dash.loaded \cup {name},
                     torn |-> dash.torn]
    /\ UNCHANGED <<web, data, out, live, pending, partial, con, links, pc, run,
                   started, written, raised, snapshot>>

----------------------------------------------------------------------------
(* The runner.                                                             *)

MaxRuns == 2

NoTables == [t \in {} |-> <<>>]

\* run_ingestion is invoked again after it returned or raised
rerun ==
    /\ pc \in {"done", "failed"} /\ pending = <<>> /\ partial = {}
    /\ run < MaxRuns
    /\ run' = run + 1
    /\ pc' = Stages[1]
    /\ started' = {}
    /\ written' = {}
    /\ raised' = ""
    /\ links' = <<>>
    /\ con' = NoTables
    /\ snapshot' = IF pc = "done" THEN [run |-> run, out |-> out] ELSE snapshot
    /\ UNCHANGED <<web, data, out, live, pending, partial, dash>>

run_ingestion ==
    \/ scrape_parquet_links
    \/ download_files
    \/ impute_december_if_missing
    \/ create_unified_schema
    \/ ghost_trip_filter
    \/ build_congestion_zone_reference
    \/ congestion_leakage_audit
    \/ yellow_green_decline
    \/ compute_kpis
    \/ border_effect_analysis
    \/ congestion_velocity_heatmap
    \/ crowding_out_analysis
    \/ rain_tax_analysis
    \/ prepare_dashboard_datasets

----------------------------------------------------------------------------
(* Worlds: the raw files and what the remote sources serve.                *)

Raw(p, d, pu, do, dist, fare, tip, total, sur) ==
    [ pickup_datetime |-> p, dropoff_datetime |-> d,
      PULocationID |-> pu, DOLocationID |-> do, trip_distance |-> dist,
      fare_amount |-> fare, tip_amount |-> tip, total_amount |-> total,
      congestion_surcharge |-> sur ]

\* pickup at 10:00:00 of a day, dropoff `secs` seconds later
At10(y, m, d) == V(<<y, m, d, 36000>>)
After(t, secs) == V(<<t[1][1], t[1][2], t[1][3], t[1][4] + secs>>)

Zone(id, borough, name) ==
    [LocationID |-> V(id), Borough |-> borough, Zone |-> name]

S_SoHo == <<"S","o","H","o">>
S_East_Harlem == <<"E","a","s","t"," ">> \o S_Harlem
S_Inwood_Hill == S_Inwood \o <<" ","H","i","l","l">>
S_Astoria == <<"A","s","t","o","r","i","a">>
S_JFK == <<"J","F","K">>

\* zone 1 is priced, zones 2 and 4 are its border, zones 3 and 5 are elsewhere
BaseLookup ==
    << Zone(1, V(S_Manhattan), V(S_SoHo)),
       Zone(2, V(S_Manhattan), V(S_East_Harlem)),
       Zone(3, V(S_Queens), V(S_Astoria)),
       Zone(4, V(S_Manhattan), V(S_Inwood_Hill)),
       Zone(5, V(S_Queens), V(S_JFK)) >>

BaseWeather ==
    << [trip_date |-> V(<<2025, 1, 15>>), precipitation |-> V(4)],
       [trip_date |-> V(<<2025, 1, 16>>), precipitation |-> V(0)],
       [trip_date |-> V(<<2024, 12, 10>>), precipitation |-> NULL] >>

\* the December files of the two reference years and of 2025
BaseDecember ==
    [ y23 |-> << Raw(At10(2023, 12, 10), After(At10(2023, 12, 10), 1200),
                     V(3), V(1), V(4), V(10), V(2), V(14), V(0)) >>,
      g23 |-> <<>>,
      y24 |-> << Raw(At10(2024, 12, 10), After(At10(2024, 12, 10), 1200),
                     V(3), V(1), V(4), V(20), V(4), V(28), V(0)) >>,
      g24 |-> << Raw(At10(2024, 12, 11), After(At10(2024, 12, 11), 900),
                     V(5), V(1), V(3), V(20), V(0), V(22), NULL) >> ]

December2025 ==
    << Raw(At10(2025, 12, 5), After(At10(2025, 12, 5), 1800),
           V(1), V(2), V(5), V(30), V(6), V(40), V(2)) >>

File(rows) == [valid |-> TRUE, rows |-> rows]

\* every file of a world: the January files hold Y and G
WorldFiles(Y, G, D, L) ==
    [n \in Range(AllNames) |->
        CASE n = TripFile(S_yellow, S_2025, S_01) -> Y
          [] n = TripFile(S_green, S_2025, S_01) -> G
          [] n = TripFile(S_yellow, S_2023, S_12) -> D.y23
          [] n = TripFile(S_green, S_2023, S_12) -> D.g23
          [] n = TripFile(S_yellow, S_2024, S_12) -> D.y24
          [] n = TripFile(S_green, S_2024, S_12) -> D.g24
          [] n = TripFile(S_yellow, S_2025, S_12) -> December2025
          [] n = LOOKUP_FILE -> L
          [] n = WEATHER_FILE -> BaseWeather
          [] OTHER -> <<>>]

Restrict(f, S) == [n \in S |-> f[n]]

January == {TripFile(S_yellow, S_2025, S_01), TripFile(S_green, S_2025, S_01)}
December25 == {TripFile(S_yellow, S_2025, S_12), TripFile(S_green, S_2025, S_12)}

\* what is served remotely and what is in DATA_FOLDER at the start:
\*  "cached": every file of 2025 is local, December 2025 among them
\*  "fresh":  DATA_FOLDER is empty, December 2025 is not published
\*  "gap":    the January files are local, December 2025 is not published
\*            and a reference file is not served (the server answers with
\*            an error page)
Served(env) ==
    CASE env = "cached" -> Range(AllNames)
      [] env = "fresh"  -> Range(AllNames) \ December25
      [] OTHER -> Range(AllNames) \ (December25 \cup {TripFile(S_green, S_2023, S_12)})

Local(env) ==
    CASE env = "cached" -> January \cup December25 \cup {LOOKUP_FILE, WEATHER_FILE}
      [] env = "fresh"  -> {}
      [] OTHER -> January

Envs == {"cached", "fresh", "gap"}

\* the state when run_ingestion is first invoked
InitWorld(envs, Ys, Gs, Ds, Ls, isLive) ==
    \E env \in envs, Y \in Ys, G \in Gs, D \in Ds, L \in Ls :
        /\ web = Restrict(WorldFiles(Y, G, D, L), Served(env))
        /\ data = [n \in Local(env) |-> File(WorldFiles(Y, G, D, L)[n])]
        /\ out = [n \in {} |-> <<>>]
        /\ live = isLive
        /\ pending = <<>>
        /\ partial = {}
        /\ con = NoTables
        /\ links = <<>>
        /\ pc = Stages[1]
        /\ run = 1
        /\ started = {}
        /\ written = {}
        /\ raised = ""
        /\ snapshot = [run |-> 0, out |-> [n \in {} |-> <<>>]]
        /\ dash = DashClosed

\* sequences over S of length at most n
SeqsUpTo(S, n) == UNION {[1..k -> S] : k \in 0..n}

MaxJanuaryRows == 1

\* a January trip of the base world: Queens to SoHo, 10 minutes, 2 miles,
\* surcharge paid
BaseTrip ==
    Raw(At10(2025, 1, 15), After(At10(2025, 1, 15), 600),
        V(3), V(1), V(2), V(10), V(2), V(15), V(2))

\* a January trip into SoHo from zone pu that paid no surcharge
Unpaid(pu) ==
    Raw(At10(2025, 1, 16), After(At10(2025, 1, 16), 600),
        V(pu), V(1), V(2), V(10), V(0), V(12), V(0))

JanuaryTrips == {BaseTrip, Unpaid(2), Unpaid(4)}

Init ==
    InitWorld(Envs, SeqsUpTo(JanuaryTrips, MaxJanuaryRows),
              SeqsUpTo(JanuaryTrips, MaxJanuaryRows),
              {BaseDecember}, {BaseLookup}, FALSE)

Next == run_ingestion \/ rerun

Spec == Init /\ [][Next]_vars

----------------------------------------------------------------------------
(* One trip of the yellow January file ranges over the cases of the ghost   *)
(* filter and of the leakage audit, next to a few fixed trips in the green  *)
(* file.                                                                    *)

P24 == At10(2024, 2, 10)

\* <<pickup, dropoff>>: 30 seconds, an hour, no dropoff, no duration, a stale
\* year, no pickup
TimeCases ==
    { <<P24, After(P24, 30)>>, <<P24, After(P24, 3600)>>, <<P24, NULL>>,
      <<P24, P24>>, <<At10(2022, 2, 10), After(At10(2022, 2, 10), 3600)>>,
      <<NULL, After(P24, 3600)>> }

GhostCases ==
    { Raw(tc[1], tc[2], V(3), V(1), dist, fare, V(1), V(30), V(2)) :
        tc \in TimeCases, dist \in {NULL, V(0), V(2), V(100)},
        fare \in {NULL, V(0), V(10), V(25)} }

LeakCases ==
    { Raw(p, After(p, 600), pu, do, V(2), V(10), V(1), V(14), sur) :
        p \in {At10(2023, 6, 1), P24, At10(2025, 1, 15)},
        pu \in {NULL, V(1), V(3)}, do \in {NULL, V(1), V(2)},
        sur \in {NULL, V(-1), V(0), V(2)} }

\* a clean paid trip, a ghost trip that enters the zone in the first quarter
\* (no distance, a fare), and a clean trip without a total
Companions ==
    { BaseTrip,
      Raw(P24, After(P24, 600), V(3), V(1), V(0), V(10), V(0), V(10), V(0)),
      Raw(At10(2025, 3, 1), After(At10(2025, 3, 1), 900),
          V(1), V(2), V(3), V(12), NULL, NULL, NULL) }

MaxCompanionRows == 1

InitTrips ==
    InitWorld({"cached", "fresh"},
              {<<>>} \cup {<<t>> : t \in GhostCases \cup LeakCases},
              SeqsUpTo(Companions, MaxCompanionRows),
              {BaseDecember}, {BaseLookup}, FALSE)

SpecTrips == InitTrips /\ [][run_ingestion]_vars

----------------------------------------------------------------------------
(* Claims about the Ghost Trip Filter.                                     *)

Ran(stage) == stage \in started /\ raised # stage

\* the number of rows of a table equal to r
Count(rows, r) == Cardinality({i \in 1..Len(rows) : rows[i] = r})

\* a row of the clean or audit table without its two derived columns
Trip(r) ==
    [ taxi_type |-> r.taxi_type, pickup_time |-> r.pickup_time,
      dropoff_time |-> r.dropoff_time, pickup_loc |-> r.pickup_loc,
      dropoff_loc |-> r.dropoff_loc, trip_distance |-> r.trip_distance,
      fare |-> r.fare, tip_amount |-> r.tip_amount,
      total_amount |-> r.total_amount,
      congestion_surcharge |-> r.congestion_surcharge ]

Trips(rows) == [i \in 1..Len(rows) |-> Trip(rows[i])]

Year(r) == IF IsNull(r.pickup_time) THEN 0 ELSE r.pickup_time[1][1]

\* the trip's duration in seconds is known
Timed(r) == ~IsNull(r.pickup_time) /\ ~IsNull(r.dropoff_time)
Seconds(r) == Epoch(r.dropoff_time[1]) - Epoch(r.pickup_time[1])

\* the three ghost-trip predicates, each true or not true of a trip
TooFast(r) ==
    /\ Timed(r) /\ Seconds(r) > 0 /\ ~IsNull(r.trip_distance)
    /\ r.trip_distance[1] * 3600 > 65 * Seconds(r)
TooShort(r) ==
    /\ Timed(r) /\ Seconds(r) < 60
    /\ ~IsNull(r.fare) /\ r.fare[1] > 20
Motionless(r) ==
    /\ ~IsNull(r.trip_distance) /\ r.trip_distance[1] = 0
    /\ ~IsNull(r.fare) /\ r.fare[1] > 0
IsGhost(r) == TooFast(r) \/ TooShort(r) \/ Motionless(r)

\* C1: after ghost_trip_filter ran, every record of the unified table whose
\* pickup year is at least 2023 is in exactly one of the clean table and the
\* audit log, records with absent values included: the two tables together
\* hold it as often as the unified table does, and never both hold it.
C1_Partition ==
    Ran("ghost_trip_filter") =>
        LET unified == out["unified_trips.parquet"]
            clean   == Trips(out["clean_trips.parquet"])
            audit   == Trips(out["audit_log.parquet"])
        IN  \A i \in 1..Len(unified) :
                Year(unified[i]) >= 2023 =>
                    /\ Count(clean, unified[i]) + Count(audit, unified[i])
                           = Count(unified, unified[i])
                    /\ ~(Count(clean, unified[i]) > 0 /\ Count(audit, unified[i]) > 0)

\* C2: after ghost_trip_filter ran, at least one of the three ghost-trip
\* predicates holds of every record of the audit log and none holds of any
\* record of the clean table.
C2_Predicates ==
    Ran("ghost_trip_filter") =>
        /\ \A r \in Range(out["audit_log.parquet"]) : IsGhost(r)
        /\ \A r \in Range(out["clean_trips.parquet"]) : ~IsGhost(r)

\* both tables hold records, the audit log one of each kind of ghost trip
C2_Witness ==
    /\ Ran("ghost_trip_filter")
    /\ out["clean_trips.parquet"] # <<>>
    /\ \E r \in Range(out["audit_log.parquet"]) : TooShort(r) /\ ~TooFast(r)
    /\ \E r \in Range(out["audit_log.parquet"]) : Motionless(r)

\* the rows of a trip table that the audit log does not hold
NoGhost(rows) ==
    SelectSeq(rows, LAMBDA r :
        \A a \in Range(out["audit_log.parquet"]) : Trip(a) # Trip(r))

\* C3: no record the Ghost Trip Filter classified as anomalous contributes
\* to a downstream aggregate table: each table a pass wrote is the table the
\* pass computes from its trip table without the records of the audit log.
C3_AggregatesIgnoreGhosts ==
    LET zones == out["congestion_zone.parquet"] IN
    /\ Ran("yellow_green_decline") =>
          out["q1_yellow_green.parquet"]
              = Q1Comparison(NoGhost(out[DeclineTripFile]), zones)
    /\ Ran("compute_kpis") =>
          out["monthly_kpis.parquet"] = MonthlyKpis(NoGhost(out["clean_trips.parquet"]))
    /\ Ran("border_effect_analysis") =>
          out["border_effect.parquet"]
              = BorderChange(BorderCounts(BorderDropoffs(
                    NoGhost(out["clean_trips.parquet"]),
                    BorderZones(data[LOOKUP_FILE].rows, zones))))
    /\ Ran("congestion_velocity_heatmap") =>
          out["velocity_heatmap.parquet"]
              = HeatmapData(SpeedMetrics(ZoneTrips(NoGhost(out["clean_trips.parquet"]), zones)))
    /\ Ran("crowding_out_analysis") =>
          out["crowding_out.parquet"]
              = TippingSummary(TippingData(NoGhost(out["clean_trips.parquet"])))
    /\ Ran("rain_tax_analysis") =>
          out["rain_tax.parquet"]
              = RainSummary(RainAnalysis(DailyTrips(NoGhost(out["clean_trips.parquet"])),
                                         data[WEATHER_FILE].rows))
    /\ Ran("prepare_dashboard_datasets") =>
          /\ out["dashboard_zone_counts.parquet"]
                 = ZoneTripCounts(NoGhost(out["clean_trips.parquet"]))
          /\ out["dashboard_leakage.parquet"]
                 = MonthlyLeakage(NoGhost(out["leakage_trips.parquet"]))

----------------------------------------------------------------------------
(* Claims about the Leakage Auditor.                                       *)

\* the zone ids of the congestion-zone reference table
ZoneIds(zones) == {z.LocationID[1] : z \in {y \in Range(zones) : ~IsNull(y.LocationID)}}

Inside(loc, zones) == ~IsNull(loc) /\ loc[1] \in ZoneIds(zones)

\* the state in which congestion_leakage_audit has just returned
Audited == Ran("congestion_leakage_audit") /\ pc = "yellow_green_decline"

\* C4: after congestion_leakage_audit ran, every leakage trip is an entering
\* trip and has a surcharge that is null or at most 0; every entering trip is
\* a clean trip picked up outside the congestion zone, dropped off inside it,
\* in 2024 or later.
C4_LeakageSubsets ==
    Audited =>
        LET zones == out["congestion_zone.parquet"] IN
        /\ \A l \in Range(out["leakage_trips.parquet"]) :
              /\ l \in Range(con.entering_zone)
              /\ (IsNull(l.congestion_surcharge) \/ l.congestion_surcharge[1] <= 0)
        /\ \A e \in Range(con.entering_zone) :
              /\ e \in Range(out["clean_trips.parquet"])
              /\ ~Inside(e.pickup_loc, zones)
              /\ Inside(e.dropoff_loc, zones)
              /\ Year(e) >= 2024

\* a leakage trip, an entering trip that paid, and a clean trip that did not
\* enter
C4_Witness ==
    /\ Audited
    /\ out["leakage_trips.parquet"] # <<>>
    /\ Range(con.entering_zone) \ Range(out["leakage_trips.parquet"]) # {}
    /\ Range(out["clean_trips.parquet"]) \ Range(con.entering_zone) # {}

----------------------------------------------------------------------------
(* Claims about the monthly KPIs.                                          *)

\* C8: the total_trips of the rows of the monthly KPI table add up to the
\* number of records of the clean table, and each clean trip is counted in
\* exactly one row, that of the month of its pickup.
C8_MonthlyCounts ==
    Ran("compute_kpis") =>
        LET kpis  == out["monthly_kpis.parquet"]
            clean == out["clean_trips.parquet"]
            rows  == SeqOf(kpis)
            InMonth(k) == {i \in 1..Len(clean) :
                              /\ clean[i].pickup_time[1][1] = k.month[1][1]
                              /\ clean[i].pickup_time[1][2] = k.month[1][2]}
        IN  /\ SumSeq([i \in 1..Len(rows) |-> rows[i].total_trips]) = Len(clean)
            /\ \A k \in kpis : k.total_trips = Cardinality(InMonth(k))
            /\ \A i \in 1..Len(clean) :
                  Cardinality({k \in kpis : i \in InMonth(k)}) = 1

\* clean trips of two months, two of them in one month
C8_Witness ==
    /\ Ran("compute_kpis")
    /\ Cardinality(out["monthly_kpis.parquet"]) >= 2
    /\ \E k \in out["monthly_kpis.parquet"] : k.total_trips >= 2

----------------------------------------------------------------------------
(* The zone-lookup table ranges over short tables; zone ids may repeat and *)
(* a zone may have no name.                                                *)

LookupRows ==
    { Zone(id, V(b), name) :
        id \in {1, 2}, b \in {S_Manhattan, S_Queens},
        name \in {V(S_SoHo), V(S_East_Harlem), V(S_Inwood_Hill),
                  V(S_Washington_Heights), NULL} }

MaxZones == 2

InitZones ==
    InitWorld({"cached"}, {<<BaseTrip>>}, {<<Unpaid(2)>>}, {BaseDecember},
              SeqsUpTo(LookupRows, MaxZones), FALSE)

SpecZones == InitZones /\ [][run_ingestion]_vars

\* the state in which border_effect_analysis has just returned
Bordered == Ran("border_effect_analysis") /\ pc = "congestion_velocity_heatmap"

\* C5: whatever the zone-lookup table, the congestion-zone set and the
\* border-zone set are disjoint and each holds only ids of zones whose
\* borough is Manhattan.
C5_ZoneSets ==
    Bordered =>
        LET congestion == ZoneIds(out["congestion_zone.parquet"])
            border     == ZoneIds(con.border_zones)
            manhattan  == {l.LocationID[1] :
                              l \in {k \in Range(data[LOOKUP_FILE].rows) :
                                        k.Borough = V(S_Manhattan)}}
        IN  /\ congestion \cap border = {}
            /\ congestion \subseteq manhattan
            /\ border \subseteq manhattan

\* a lookup table that gives a congestion zone and a border zone
C5_Witness ==
    /\ Bordered
    /\ out["congestion_zone.parquet"] # <<>>
    /\ con.border_zones # <<>>

----------------------------------------------------------------------------
(* The December files of the reference years range over short tables.      *)

DecemberTrips(y) ==
    { Raw(At10(y, 12, 10), After(At10(y, 12, 10), 1200),
          V(3), V(1), V(4), V(10), V(2), V(14), V(0)),
      Raw(At10(y, 12, 11), After(At10(y, 12, 11), 900),
          V(5), V(1), V(2), V(20), V(0), V(25), V(2)),
      Raw(At10(y, 12, 12), After(At10(y, 12, 12), 900),
          V(5), V(1), NULL, NULL, NULL, NULL, NULL) }

MaxDecemberRows == 1

DecemberWorlds ==
    { [y23 |-> a, g23 |-> b, y24 |-> c, g24 |-> BaseDecember.g24] :
        a \in SeqsUpTo(DecemberTrips(2023), MaxDecemberRows),
        b \in SeqsUpTo(DecemberTrips(2023), MaxDecemberRows),
        c \in SeqsUpTo(DecemberTrips(2024), MaxDecemberRows) }

InitImpute ==
    InitWorld(Envs, {<<BaseTrip>>}, {<<Unpaid(2)>>}, DecemberWorlds,
              {BaseLookup}, FALSE)

SpecImpute == InitImpute /\ [][run_ingestion]_vars

\* the state in which impute_december_if_missing has just returned
Imputed == Ran("impute_december_if_missing") /\ pc = "create_unified_schema"

\* w is 0.3 times s23 / n23 plus 0.7 times s24 / n24 (no value when a
\* reference year has none)
IsBlend(w, s23, n23, s24, n24) ==
    IF n23 = 0 \/ n24 = 0 THEN IsNull(w)
    ELSE /\ ~IsNull(w)
         /\ 10 * w[1][1] * n23 * n24 = w[1][2] * (3 * s23 * n24 + 7 * s24 * n23)

ColumnBlend(w, Col(_)) ==
    LET v23 == NonNull(ReadAll(data, files_2023), Col)
        v24 == NonNull(ReadAll(data, files_2024), Col)
    IN  IsBlend(w, SumSeq(v23), Len(v23), SumSeq(v24), Len(v24))

\* C10: when no file of DATA_FOLDER names December 2025, the imputer writes
\* one statistics row, each field 0.3 times the December 2023 value plus 0.7
\* times the December 2024 value; when such a file is there it writes
\* nothing.
C10_Blend ==
    Imputed =>
        IF december_missing
        THEN /\ "imputed_december_2025.parquet" \in written
             /\ Len(out["imputed_december_2025.parquet"]) = 1
             /\ LET w == out["imputed_december_2025.parquet"][1] IN
                /\ IsBlend(w.trips, Len(ReadAll(data, files_2023)), 1,
                                    Len(ReadAll(data, files_2024)), 1)
                /\ ColumnBlend(w.avg_distance, LAMBDA r : r.trip_distance)
                /\ ColumnBlend(w.avg_fare, LAMBDA r : r.fare_amount)
                /\ ColumnBlend(w.avg_total, LAMBDA r : r.total_amount)
                /\ ColumnBlend(w.avg_surcharge, LAMBDA r : r.congestion_surcharge)
        ELSE written = {}

\* mean fares of 10 and 20 are imputed as 17
C10_Witness ==
    /\ Imputed /\ december_missing
    /\ con.stats23[1].avg_fare = V(<<10, 1>>)
    /\ con.stats24[1].avg_fare = V(<<20, 1>>)
    /\ out["imputed_december_2025.parquet"][1].avg_fare = V(<<17, 1>>)

----------------------------------------------------------------------------
(* Claims about the runner.                                                *)

\* the files each stage writes to the working directory
StageOutputs(s) ==
    CASE s = "impute_december_if_missing" -> {"imputed_december_2025.parquet"}
      [] s = "create_unified_schema" -> {"unified_trips.parquet"}
      [] s = "ghost_trip_filter" -> {"audit_log.parquet", "clean_trips.parquet"}
      [] s = "build_congestion_zone_reference" -> {"congestion_zone.parquet"}
      [] s = "congestion_leakage_audit" ->
            {"leakage_trips.parquet", "top_leakage_pickups.parquet",
             "compliance_stats.parquet"}
      [] s = "yellow_green_decline" -> {"q1_yellow_green.parquet"}
      [] s = "compute_kpis" -> {"monthly_kpis.parquet"}
      [] s = "border_effect_analysis" -> {"border_effect.parquet"}
      [] s = "congestion_velocity_heatmap" -> {"velocity_heatmap.parquet"}
      [] s = "crowding_out_analysis" -> {"crowding_out.parquet"}
      [] s = "rain_tax_analysis" -> {"rain_tax.parquet"}
      [] s = "prepare_dashboard_datasets" ->
            {"dashboard_zone_counts.parquet", "dashboard_leakage.parquet"}
      [] OTHER -> {}

FirstStages(k) == {Stages[i] : i \in 1..k}

\* C9: when a stage of run_ingestion fails, the run stops there: the failure
\* reaches the caller, the stages up to the failing one are the only ones
\* that ran, and no file of a later stage was written in the run; otherwise
\* the stages run in the order of run_ingestion, all of them by the end.
C9_StopsAtFailure ==
    /\ raised # "" =>
          /\ pc = "failed"
          /\ started = FirstStages(StageIndex(raised))
          /\ \A i \in (StageIndex(raised) + 1)..Len(Stages) :
                written \cap StageOutputs(Stages[i]) = {}
    /\ raised = "" =>
          /\ pc # "failed"
          /\ pc = "done" => started = Range(Stages)
          /\ pc # "done" => started = FirstStages(StageIndex(pc) - 1)

\* the weather source fails after the earlier passes wrote their tables
C9_Witness ==
    /\ raised = "rain_tax_analysis"
    /\ "crowding_out.parquet" \in written
    /\ "rain_tax.parquet" \notin DOMAIN out

\* C6: when run_ingestion completes twice in succession over unchanged
\* sources, every output table holds after the second run what it held after
\* the first.
C6_Idempotent ==
    (pc = "done" /\ run > 1 /\ snapshot.run = run - 1) => out = snapshot.out

----------------------------------------------------------------------------
(* The pipeline next to a dashboard.                                       *)

InitLive ==
    InitWorld({"cached"}, {<<BaseTrip>>}, {<<Unpaid(2)>>}, {BaseDecember},
              {BaseLookup}, TRUE)

NextLive ==
    \/ run_ingestion
    \/ rerun
    \/ copy_begin
    \/ copy_end
    \/ copy_rename
    \/ dash_start
    \/ dash_read

SpecLive == InitLive /\ [][NextLive]_vars

\* C7: a dashboard read that starts while a stage writes a table never sees
\* the table partially written.
C7_AtomicWrites == dash.torn = {}

----------------------------------------------------------------------------
(* Claims about the border effect: the yellow January file holds a few     *)
(* trips that end in zones 1 to 4 in the years 2023 to 2025.               *)

\* a sound trip from Queens, picked up in year y and dropped off in zone z
Dropoff(y, z) ==
    Raw(At10(y, 3, 5), After(At10(y, 3, 5), 600),
        V(3), V(z), V(2), V(10), V(2), V(15), V(2))

BorderTrips ==
    { Dropoff(2024, 2), Dropoff(2025, 2), Dropoff(2025, 4), Dropoff(2024, 1),
      Dropoff(2023, 2), Dropoff(2024, 3) }

MaxBorderRows == 3

InitBorder ==
    InitWorld({"cached", "fresh"}, SeqsUpTo(BorderTrips, MaxBorderRows),
              {<<Dropoff(2025, 4)>>}, {BaseDecember}, {BaseLookup}, FALSE)

SpecBorder == InitBorder /\ [][run_ingestion]_vars

\* the ids of the Manhattan zones of the lookup outside the congestion zone
BorderIds ==
    { l.LocationID[1] :
        l \in { k \in Range(data[LOOKUP_FILE].rows) :
                  ~IsNull(k.LocationID) /\ k.Borough = V(S_Manhattan) } }
    \ ZoneIds(out["congestion_zone.parquet"])

\* the number of clean trips picked up in year y that end in zone z
Dropoffs(z, y) ==
    LET trips == out["clean_trips.parquet"] IN
    Cardinality({ i \in 1..Len(trips) :
        trips[i].dropoff_loc = V(z) /\ Year(trips[i]) = y })

\* C11: in the border-effect table every border zone with dropoffs in 2024
\* or 2025 has exactly one row, holding the two counts; its percent change
\* is 100 * (count2025 - count2024) / count2024 when count2024 > 0 and no
\* value (neither zero nor an error) when count2024 is 0; no other zone has
\* a row.
C11_PercentChange ==
    Bordered =>
        LET table == out["border_effect.parquet"] IN
        /\ \A r \in table : ~IsNull(r.dropoff_loc) /\ r.dropoff_loc[1] \in BorderIds
        /\ \A z \in BorderIds :
              LET n24  == Dropoffs(z, 2024)
                  n25  == Dropoffs(z, 2025)
                  rows == {r \in table : r.dropoff_loc = V(z)}
              IN  IF n24 + n25 = 0 THEN rows = {}
                  ELSE /\ Cardinality(rows) = 1
                       /\ \A r \in rows :
                            /\ r.trips_2024 = V(n24)
                            /\ r.trips_2025 = V(n25)
                            /\ IF n24 > 0
                               THEN /\ ~IsNull(r.percent_change)
                                    /\ r.percent_change[1][1] * n24
                                         = r.percent_change[1][2] * 100 * (n25 - n24)
                               ELSE IsNull(r.percent_change)

\* zone 2 goes from 2 dropoffs to 1 (-50), zone 4 has dropoffs in 2025 only
C11_Witness ==
    /\ Bordered
    /\ \E r \in out["border_effect.parquet"] :
          /\ r.dropoff_loc = V(2) /\ r.trips_2024 = V(2) /\ r.trips_2025 = V(1)
          /\ r.percent_change = V(<<-50, 1>>)
    /\ \E r \in out["border_effect.parquet"] :
          /\ r.dropoff_loc = V(4) /\ r.trips_2024 = V(0) /\ r.trips_2025 = V(1)
          /\ IsNull(r.percent_change)

----------------------------------------------------------------------------
(* Claims about the top leakage pickup zones.                              *)

\* C12: for the same leakage-trip set congestion_leakage_audit always
\* produces the same three pickup zones, also when pickup zones tie in
\* leakage count at the third place: the audit of a second run over the same
\* leakage trips writes the top-3 table the first run wrote.
C12_TopThreeDeterministic ==
    ( /\ Audited /\ run > 1 /\ snapshot.run = run - 1
      /\ out["leakage_trips.parquet"] = snapshot.out["leakage_trips.parquet"] )
    => out["top_leakage_pickups.parquet"]
         = snapshot.out["top_leakage_pickups.parquet"]

----------------------------------------------------------------------------
(* Claims about the rain impact: the weather series ranges over what it    *)
(* can say about the first days with trips.                                *)

\* days with trips in the base world, and a value for each: no row, a row
\* without a value, a dry day, a wet day
TripDays == << <<2025, 1, 15>>, <<2025, 1, 16>>, <<2024, 12, 10>>, <<2024, 12, 11>> >>

MaxWeatherDays == 3

Reports == {"none", "null", "dry", "wet"}

\* the series of one report per day, a day of report "none" left out
WeatherSeries(report) ==
    Flatten([i \in 1..Len(report) |->
        CASE report[i] = "none" -> <<>>
          [] report[i] = "null" -> <<[trip_date |-> V(TripDays[i]), precipitation |-> NULL]>>
          [] report[i] = "dry"  -> <<[trip_date |-> V(TripDays[i]), precipitation |-> V(0)]>>
          [] OTHER              -> <<[trip_date |-> V(TripDays[i]), precipitation |-> V(4)]>>])

InitRain ==
    \E env \in {"cached", "fresh"}, report \in [1..MaxWeatherDays -> Reports] :
        LET files == [WorldFiles(<<BaseTrip>>, <<Unpaid(2), Unpaid(4)>>,
                                 BaseDecember, BaseLookup)
                        EXCEPT ![WEATHER_FILE] = WeatherSeries(report)]
        IN  /\ web = Restrict(files, Served(env))
            /\ data = [n \in Local(env) |-> File(files[n])]
            /\ out = [n \in {} |-> <<>>]
            /\ live = FALSE
            /\ pending = <<>>
            /\ partial = {}
            /\ con = NoTables
            /\ links = <<>>
            /\ pc = Stages[1]
            /\ run = 1
            /\ started = {}
            /\ written = {}
            /\ raised = ""
            /\ snapshot = [run |-> 0, out |-> [n \in {} |-> <<>>]]
            /\ dash = DashClosed

SpecRain == InitRain /\ [][run_ingestion]_vars

\* the state in which rain_tax_analysis has just returned
Rained == Ran("rain_tax_analysis") /\ pc = "prepare_dashboard_datasets"

\* the days on which a clean trip was picked up
CleanDays ==
    LET trips == out["clean_trips.parquet"] IN
    { <<trips[i].pickup_time[1][1], trips[i].pickup_time[1][2],
        trips[i].pickup_time[1][3]>> : i \in 1..Len(trips) }

\* the weather series has a positive precipitation for day d
Wet(d) ==
    \E w \in Range(data[WEATHER_FILE].rows) :
        /\ w.trip_date = V(d)
        /\ ~IsNull(w.precipitation) /\ w.precipitation[1] > 0

\* C13: in the rain-impact pass every day with clean trips is classified
\* exactly once, as rainy or as not rainy, and no other day is; a day is
\* rainy only if its precipitation is above 0, so a day with precipitation
\* 0, with a null precipitation or without a row in the weather series is
\* not rainy.
C13_RainClasses ==
    Rained =>
        /\ \A r \in con.rain_analysis :
              ~IsNull(r.trip_date) /\ r.trip_date[1] \in CleanDays
        /\ \A d \in CleanDays :
              LET rows == {r \in con.rain_analysis : r.trip_date = V(d)} IN
              /\ Cardinality(rows) = 1
              /\ \A r \in rows : r.rainy = IF Wet(d) THEN 1 ELSE 0

\* a wet day, a day of null precipitation and a day without a weather row
C13_Witness ==
    /\ Rained
    /\ \E w \in Range(data[WEATHER_FILE].rows) :
          w.trip_date = V(<<2025, 1, 16>>) /\ IsNull(w.precipitation)
    /\ \A w \in Range(data[WEATHER_FILE].rows) : w.trip_date # V(<<2024, 12, 10>>)
    /\ \E r \in con.rain_analysis : r.trip_date = V(<<2025, 1, 15>>) /\ r.rainy = 1
    /\ \E r \in con.rain_analysis : r.trip_date = V(<<2025, 1, 16>>) /\ r.rainy = 0
    /\ \E r \in con.rain_analysis : r.trip_date = V(<<2024, 12, 10>>) /\ r.rainy = 0

----------------------------------------------------------------------------
(* The aggregation passes run by parallel workers.  Each pass keeps the    *)
(* statements of its function in their order; what interleaves are the     *)
(* statements that touch files: each load of an input and each COPY.        *)

Passes ==
    { "yellow_green_decline", "compute_kpis", "border_effect_analysis",
      "congestion_velocity_heatmap", "crowding_out_analysis",
      "rain_tax_analysis", "prepare_dashboard_datasets" }

\* the files a pass loads, in the order of its statements
PassReads(s) ==
    CASE s = "yellow_green_decline" -> <<DeclineTripFile, "congestion_zone.parquet">>
      [] s = "compute_kpis" -> <<"clean_trips.parquet">>
      [] s = "border_effect_analysis" ->
            <<"clean_trips.parquet", "congestion_zone.parquet", "taxi_zone_lookup.csv">>
      [] s = "congestion_velocity_heatmap" ->
            <<"clean_trips.parquet", "congestion_zone.parquet">>
      [] s = "crowding_out_analysis" -> <<"clean_trips.parquet">>
      [] s = "rain_tax_analysis" -> <<"clean_trips.parquet", "ny_weather.parquet">>
      [] OTHER -> <<"clean_trips.parquet", "leakage_trips.parquet">>

\* the COPY statements of a pass, from the tables t it loaded
PassCopies(s, t) ==
    CASE s = "yellow_green_decline" ->
            << <<"q1_yellow_green.parquet",
                 Q1Comparison(t[DeclineTripFile], t["congestion_zone.parquet"])>> >>
      [] s = "compute_kpis" ->
            << <<"monthly_kpis.parquet", MonthlyKpis(t["clean_trips.parquet"])>> >>
      [] s = "border_effect_analysis" ->
            << <<"border_effect.parquet",
                 BorderChange(BorderCounts(BorderDropoffs(
                     t["clean_trips.parquet"],
                     BorderZones(t["taxi_zone_lookup.csv"], t["congestion_zone.parquet"]))))>> >>
      [] s = "congestion_velocity_heatmap" ->
            << <<"velocity_heatmap.parquet",
                 HeatmapData(SpeedMetrics(ZoneTrips(
                     t["clean_trips.parquet"], t["congestion_zone.parquet"])))>> >>
      [] s = "crowding_out_analysis" ->
            << <<"crowding_out.parquet",
                 TippingSummary(TippingData(t["clean_trips.parquet"]))>> >>
      [] s = "rain_tax_analysis" ->
            << <<"rain_tax.parquet",
                 RainSummary(RainAnalysis(DailyTrips(t["clean_trips.parquet"]),
                                          t["ny_weather.parquet"]))>> >>
      [] OTHER ->
            << <<"dashboard_zone_counts.parquet",
                 ZoneTripCounts(t["clean_trips.parquet"])>>,
               <<DashboardLeakageFile, MonthlyLeakage(t["leakage_trips.parquet"])>> >>

\* a load of file f: whether the file is there, whole and readable, and its
\* rows; the lookup and the weather series are files of the data folder
\* (the weather file is there in every world of SpecParallel, so
\* rain_tax_analysis has nothing to fetch)
Load(f) ==
    IF f \in {"taxi_zone_lookup.csv", "ny_weather.parquet"}
    THEN LET n == IF f = "taxi_zone_lookup.csv" THEN LOOKUP_FILE ELSE WEATHER_FILE
             ok == Readable(data, <<n>>)
         IN  [ok |-> ok, rows |-> IF ok THEN data[n].rows ELSE <<>>]
    ELSE [ok |-> f \in DOMAIN out /\ f \notin partial,
          rows |-> IF f \in DOMAIN out THEN out[f] ELSE <<>>]

\* the size of the pool of workers
MaxWorkers == 3

\* the leakage audit is done: the caller hands the passes to the pool; a
\* pass opens a connection of its own
fork ==
    /\ At("yellow_green_decline")
    /\ pc' = "passes"
    /\ con' = [s \in Passes |->
                  [at |-> "idle", tables |-> NoTables, todo |-> <<>>,
                   read |-> {}, wrote |-> {}]]
    /\ UNCHANGED <<web, data, out, live, pending, partial, links, run, started,
                   written, raised, snapshot, dash>>

\* the next load of pass s, which begins when a worker is free; after its
\* last load the pass has its results and COPY statements left to run
pass_load(s) ==
    /\ pc = "passes" /\ con[s].at \in {"idle", "loading"}
    /\ con[s].at = "idle" =>
          Cardinality({t \in Passes : con[t].at \notin {"idle", "done"}}) < MaxWorkers
    /\ LET w == con[s]
           f == PassReads(s)[Cardinality(w.read) + 1]
           tables == [g \in DOMAIN w.tables \cup {f} |->
                         IF g = f THEN Load(f).rows ELSE w.tables[g]]
       IN  IF Load(f).ok
           THEN /\ con' = [con EXCEPT ![s] =
                      IF Cardinality(w.read) + 1 = Len(PassReads(s))
                      THEN [at |-> "copying", tables |-> NoTables,
                            todo |-> PassCopies(s, tables),
                            read |-> w.read \cup {f}, wrote |-> {}]
                      ELSE [at |-> "loading", tables |-> tables, todo |-> <<>>,
                            read |-> w.read \cup {f}, wrote |-> {}]]
                /\ UNCHANGED <<pc, raised>>
           ELSE /\ pc' = Raise(s)
                /\ raised' = s
                /\ UNCHANGED con
    /\ started' = started \cup {s}
    /\ UNCHANGED <<web, data, out, live, pending, partial, links, run, written,
                   snapshot, dash>>

\* the next COPY of pass s starts to write its file, in place
pass_copy_begin(s) ==
    /\ pc = "passes" /\ con[s].at = "copying"
    /\ out' = Copied(out, <<con[s].todo[1]>>)
    /\ partial' = partial \cup {con[s].todo[1][1]}
    /\ written' = written \cup {con[s].todo[1][1]}
    /\ con' = [con EXCEPT ![s].at = "writing",
                          ![s].wrote = @ \cup {con[s].todo[1][1]}]
    /\ UNCHANGED <<web, data, live, pending, links, pc, run, started, raised,
                   snapshot, dash>>

\* the COPY ends; after the last one the pass returns
pass_copy_end(s) ==
    /\ pc = "passes" /\ con[s].at = "writing"
    /\ partial' = partial \ {con[s].todo[1][1]}
    /\ con' = [con EXCEPT ![s].todo = Tail(@),
                          ![s].at = IF Len(con[s].todo) = 1 THEN "done"
                                    ELSE "copying"]
    /\ UNCHANGED <<web, data, out, live, pending, links, pc, run, started,
                   written, raised, snapshot, dash>>

\* every pass returned: run_ingestion returns
join ==
    /\ pc = "passes" /\ \A s \in Passes : con[s].at = "done"
    /\ pc' = "done"
    /\ UNCHANGED <<web, data, out, live, pending, partial, con, links, run,
                   started, written, raised, snapshot, dash>>

InitParallel ==
    InitWorld({"cached"}, {<<BaseTrip>>}, {<<Unpaid(2)>>}, {BaseDecember},
              {BaseLookup}, FALSE)

\* a run calls the passes in the order of run_ingestion or forks them
NextParallel ==
    \/ run_ingestion
    \/ fork
    \/ \E s \in Passes : pass_load(s)
    \/ \E s \in Passes : pass_copy_begin(s)
    \/ \E s \in Passes : pass_copy_end(s)
    \/ join
    \/ rerun

SpecParallel == InitParallel /\ [][NextParallel]_vars

\* the passes of this run ran on workers (and all returned)
Forked == DOMAIN con = Passes
Joined == Forked /\ pc = "done"

----------------------------------------------------------------------------
(* Claims about the Dashboard's use of the tables.                         *)

\* the columns app.py takes from each table it loads
DashColumns(name) ==
    CASE name = "monthly_kpis.parquet" ->
            {"month", "total_trips", "total_revenue", "congestion_revenue",
             "avg_distance", "avg_duration_minutes"}
      [] name = "dashboard_zone_counts.parquet" -> {"revenue", "pickup_loc"}
      [] name = "dashboard_leakage.parquet" -> {"month", "leakage_revenue"}
      [] name = "velocity_heatmap.parquet" -> {"weekday", "hour", "avg_speed"}
      [] name = "border_effect.parquet" -> {}
      [] name = "crowding_out.parquet" -> {"month", "avg_surcharge", "avg_tip_ratio"}
      [] name = "rain_tax.parquet" -> {"rainy", "trip_count"}
      [] OTHER -> {}

\* C15: every column the Dashboard takes from a table it has loaded is a
\* column of the rows the pipeline wrote to that table.
C15_DashboardColumns ==
    \A f \in dash.loaded :
        \A r \in out[f] : DashColumns(f) \subseteq DOMAIN r

=============================================================================
